---- MODULE Spec2Model ----
(***************************************************************************)
(* Vocabulary viewer (src/src/App.tsx, with the extra sort keys of the     *)
(* site.v2 variant in src/unnamed/part_001): CSV row normalisation, the    *)
(* import pipeline, local-storage persistence, the filtered/sorted view    *)
(* and CSV export.                                                         *)
(*                                                                         *)
(* Text is a sequence of character tokens.  "SP" is a whitespace           *)
(* character, "ZHCOMMA" the Chinese comma, "DUN" the Chinese enumeration   *)
(* comma.  Chinese header aliases are written in pinyin.  An optional JS   *)
(* value is a sequence of length 0 (undefined/null) or 1 (the value).      *)
(***************************************************************************)
EXTENDS Naturals, Integers, Sequences, FiniteSets, TLC

VARIABLES
  input,       \* pure-function specifications: the raw row / the CSV table
  result,      \* pure-function specifications: what the function returned
  phase,       \* which step of a pure-function specification has been taken
  store,       \* localStorage: the Collection key, the favs key, the favOnly key
  data,        \* the data state when it is an array, else <<>>
  dataType,    \* the JS type of the value held in the data state
  crashed,     \* rendering App threw
  query, category, tag, sortBy, favOnly,   \* QueryState
  favs,        \* the ids that are keys of the favs object
  arr,         \* filtered: the array before the sort
  view,        \* filtered: the array returned
  derivedFrom, \* the elements of data when filtered was last computed
  notice,      \* the last toast
  startPc, startRes,   \* the startup effect and the response it awaits
  urlPc, urlRes,       \* handleURL and the response it awaits
  filePc,              \* handleFile
  now,                 \* Date.now()
  uiLang, lang, dark,   \* the preferences: UI language, content-language mode, theme
  prefStore,   \* localStorage: the uiLang, lang and dark keys
  pageSearch,  \* the query string of the page URL, a sequence of key/value pairs
  viewOnly,    \* view-only mode of the site variant
  fixedRemote, \* localStorage: the fixed data source URL of the site variant
  cursor,      \* the flashcard cursor (idx; cursor in the site variant)
  memoRuns,    \* how many times the callback of useMemo for filtered has run
  shuffles,    \* how many times the shuffle control has been activated
  loading,     \* the loading flag
  timers       \* the pending setTimeout(() => setLoading(false)) callbacks

-----------------------------------------------------------------------------
(* Optional values                                                         *)
None == <<>>
Some(x) == <<x>>
IsSome(o) == Len(o) = 1
Get(o) == o[1]

-----------------------------------------------------------------------------
(* Characters and strings                                                  *)
IsSpace(c) == c = "SP"

\* String.prototype.trim
RECURSIVE TrimLeft(_)
TrimLeft(s) == IF s = <<>> THEN <<>>
               ELSE IF IsSpace(Head(s)) THEN TrimLeft(Tail(s)) ELSE s

RECURSIVE TrimRight(_)
TrimRight(s) == IF s = <<>> THEN <<>>
                ELSE IF IsSpace(s[Len(s)]) THEN TrimRight(SubSeq(s, 1, Len(s) - 1)) ELSE s

Trim(s) == TrimRight(TrimLeft(s))

\* String.prototype.toLowerCase on the characters of the model
LowerChar(c) ==
  CASE c = "A" -> "a" [] c = "B" -> "b" [] c = "C" -> "c" [] c = "D" -> "d" [] c = "E" -> "e"
    [] OTHER -> c
ToLowerCase(s) == [i \in 1..Len(s) |-> LowerChar(s[i])]

\* k.toLowerCase().trim() on a header name (header names are atomic tokens)
KeyLowerTrim(k) ==
  CASE k = "ZH_TITLE"   -> "zh_title"
    [] k = "En_Title "  -> "en_title"
    [] k = " Term"      -> "term"
    [] OTHER            -> k

\* JS truthiness of an optional string: undefined and "" are falsy
Truthy(o) == IsSome(o) /\ Get(o) # <<>>

\* a || b on optional strings
OrElse(a, b) == IF Truthy(a) THEN a ELSE b

-----------------------------------------------------------------------------
(* Numbers: Number(text), isFinite, String(number)                         *)
DigitVal(c) ==
  CASE c = "0" -> 0 [] c = "1" -> 1 [] c = "2" -> 2 [] c = "3" -> 3 [] c = "4" -> 4
    [] c = "5" -> 5 [] c = "6" -> 6 [] c = "7" -> 7 [] c = "8" -> 8 [] c = "9" -> 9
IsDigit(c) == c \in {"0", "1", "2", "3", "4", "5", "6", "7", "8", "9"}
DigitChar(n) ==
  CASE n = 0 -> "0" [] n = 1 -> "1" [] n = 2 -> "2" [] n = 3 -> "3" [] n = 4 -> "4"
    [] n = 5 -> "5" [] n = 6 -> "6" [] n = 7 -> "7" [] n = 8 -> "8" [] n = 9 -> "9"

RECURSIVE DigitsValue(_, _)
DigitsValue(s, acc) == IF s = <<>> THEN acc
                       ELSE DigitsValue(Tail(s), acc * 10 + DigitVal(Head(s)))

AllDigits(s) == s # <<>> /\ \A i \in 1..Len(s) : IsDigit(s[i])

NaN == [kind |-> "nan", val |-> 0]
Infinity == [kind |-> "inf", val |-> 0]
Fin(n) == [kind |-> "fin", val |-> n]

\* Number(text): surrounding whitespace ignored, "" is 0, an optional sign,
\* decimal digits, "Infinity"; anything else is NaN
NumberOfText(s) ==
  LET t == Trim(s) IN
    IF t = <<>> THEN Fin(0)
    ELSE IF t = <<"INF">> THEN Infinity
    ELSE IF AllDigits(t) THEN Fin(DigitsValue(t, 0))
    ELSE IF Head(t) = "-" /\ AllDigits(Tail(t)) THEN Fin(0 - DigitsValue(Tail(t), 0))
    ELSE NaN

isFinite(x) == x.kind = "fin"

RECURSIVE NatToText(_)
NatToText(n) == IF n < 10 THEN <<DigitChar(n)>>
                ELSE NatToText(n \div 10) \o <<DigitChar(n % 10)>>

\* String(number) for a finite number
NumberToText(n) == IF n < 0 THEN <<"-">> \o NatToText(0 - n) ELSE NatToText(n)

-----------------------------------------------------------------------------
(* split(/[...]+/).filter(Boolean)                                         *)
TagDelims == {";", ",", "ZHCOMMA", "DUN", "SP"}
ImageDelims == {";", ",", "ZHCOMMA", "SP"}

RECURSIVE SplitAcc(_, _, _, _)
SplitAcc(s, delims, cur, acc) ==
  IF s = <<>> THEN (IF cur = <<>> THEN acc ELSE Append(acc, cur))
  ELSE IF Head(s) \in delims
       THEN SplitAcc(Tail(s), delims, <<>>, IF cur = <<>> THEN acc ELSE Append(acc, cur))
       ELSE SplitAcc(Tail(s), delims, Append(cur, Head(s)), acc)

SplitKeepWhole(s, delims) == IF s = <<>> THEN <<>> ELSE <<s>>
SplitNonEmpty(s, delims) == SplitAcc(s, delims, <<>>, <<>>)

\* Array.prototype.join
RECURSIVE Join(_, _)
Join(parts, sep) ==
  IF parts = <<>> THEN <<>>
  ELSE IF Len(parts) = 1 THEN parts[1]
  ELSE parts[1] \o sep \o Join(Tail(parts), sep)

-----------------------------------------------------------------------------
(* normalizeRow                                                            *)
\* A raw row is the sequence of its (header, cell) entries in column order.
Cell(k, v) == [k |-> k, v |-> v]

\* Object.fromEntries(Object.entries(row).map(([k,v]) => [k.toLowerCase().trim(), v])):
\* a later entry with the same normalised key replaces an earlier one
RECURSIVE LowerKeys(_, _)
LowerKeys(row, acc) ==
  IF row = <<>> THEN acc
  ELSE LET k == KeyLowerTrim(Head(row).k)
           v == Head(row).v
       IN LowerKeys(Tail(row),
                    [x \in (DOMAIN acc) \cup {k} |-> IF x = k THEN v ELSE acc[x]])

EmptyObject == [x \in {} |-> <<>>]
Lower(row) == LowerKeys(row, EmptyObject)

\* pick with the ?? chain of the site.v2 variant: the first candidate that is
\* present, blank or not
RECURSIVE pickNullish(_, _)
pickNullish(lower, cands) ==
  IF cands = <<>> THEN None
  ELSE LET k == KeyLowerTrim(Head(cands)) IN
       IF k \in DOMAIN lower THEN Some(lower[k])
       ELSE pickNullish(lower, Tail(cands))

\* pick(...cands): the raw value of the first candidate that is present and
\* not blank after trimming, else undefined
RECURSIVE pick(_, _)
pick(lower, cands) ==
  IF cands = <<>> THEN None
  ELSE LET k == KeyLowerTrim(Head(cands)) IN
       IF k \in DOMAIN lower /\ Trim(lower[k]) # <<>> THEN Some(lower[k])
       ELSE pick(lower, Tail(cands))

ZhTitleAliases == <<"zh_title", "zhongwen_biaoti", "biaoti">>
EnTitleAliases == <<"en_title", "term_en", "term", "yingwen_biaoti", "word">>
ZhDefAliases == <<"zh_def", "definition_cn", "zhongwen_shiyi", "shiyi">>
EnDefAliases == <<"en_def", "definition", "meaning", "yingwen_shiyi">>
CategoryAliases == <<"category", "class", "type", "leibie">>
TagsAliases == <<"tags", "biaoqian">>
ExampleAliases == <<"example", "liju">>
DetailsAliases == <<"details", "beijing", "beizhu">>
ImagesAliases == <<"images", "tupian">>
FrequencyAliases == <<"frequency", "freq", "quanzhong">>

\* x ? String(x).trim() : undefined
TrimmedOrUndefined(o) == IF Truthy(o) THEN Some(Trim(Get(o))) ELSE None
\* x ? String(x) : undefined
TextOrUndefined(o) == IF Truthy(o) THEN Some(Get(o)) ELSE None
\* typeof raw === "string" ? raw.split(re).filter(Boolean) : undefined
SplitOrUndefined(o, delims) == IF IsSome(o) THEN Some(SplitNonEmpty(Get(o), delims)) ELSE None

\* the validity test of normalizeRow: some title or definition was picked
HasLanguage(zhTitle, zhDef, enTitle, enDef) ==
  LET hasZh == OrElse(zhTitle, zhDef)
      hasEn == OrElse(enTitle, enDef)
  IN Truthy(hasZh) \/ Truthy(hasEn)

\* the id without the row index
VocabIdNoIndex(at, idx, rnd) == <<at, 0, rnd>>
\* id: `${Date.now()}-${idx}-${Math.random().toString(36).slice(2,7)}`
VocabId(at, idx, rnd) == <<at, idx, rnd>>

\* normalizeRow(row, idx) when Date.now() is at and the random suffix is rnd;
\* None is null
normalizeRow(row, idx, at, rnd) ==
  LET lower == Lower(row)
      zhTitle == pick(lower, ZhTitleAliases)
      enTitle == pick(lower, EnTitleAliases)
      zhDef == pick(lower, ZhDefAliases)
      enDef == pick(lower, EnDefAliases)
      categoryRaw == pick(lower, CategoryAliases)
      tagsRaw == pick(lower, TagsAliases)
      example == pick(lower, ExampleAliases)
      details == pick(lower, DetailsAliases)
      imagesRaw == pick(lower, ImagesAliases)
      freqRaw == pick(lower, FrequencyAliases)
      frequency == IF IsSome(freqRaw) THEN NumberOfText(Get(freqRaw)) ELSE NaN
  IN IF ~HasLanguage(zhTitle, zhDef, enTitle, enDef) THEN None
     ELSE Some([id |-> VocabId(at, idx, rnd),
                zhTitle |-> TrimmedOrUndefined(zhTitle),
                enTitle |-> TrimmedOrUndefined(enTitle),
                zhDef |-> TrimmedOrUndefined(zhDef),
                enDef |-> TrimmedOrUndefined(enDef),
                category |-> TrimmedOrUndefined(categoryRaw),
                tags |-> SplitOrUndefined(tagsRaw, TagDelims),
                example |-> TextOrUndefined(example),
                details |-> TextOrUndefined(details),
                images |-> SplitOrUndefined(imagesRaw, ImageDelims),
                frequency |-> IF isFinite(frequency) THEN Some(frequency.val) ELSE None,
                addedAt |-> Some(at)])

-----------------------------------------------------------------------------
(* parseCSVText and exportCSV.  Papa.parse (header: true) and Papa.unparse  *)
(* are the external CSV library: a CSV text is modelled as the table it     *)
(* stands for, the sequence of its rows.                                    *)

\* rows.forEach((r, i) => { const v = normalizeRow(r, i); if (v) out.push(v); })
\* stopping at the first row that normalises to null
RECURSIVE parseRowsAbortOnNull(_, _, _, _, _)
parseRowsAbortOnNull(rows, i, times, rnds, out) ==
  IF i > Len(rows) THEN out
  ELSE LET v == normalizeRow(rows[i], i - 1, times[i], rnds[i]) IN
       IF IsSome(v) THEN parseRowsAbortOnNull(rows, i + 1, times, rnds, Append(out, Get(v)))
       ELSE out

\* rows.forEach((r, i) => { const v = normalizeRow(r, i); if (v) out.push(v); })
\* rows[i] is row i-1 of the CSV; times[i] is Date.now() when it is normalised
\* and rnds[i] the random suffix drawn for it
RECURSIVE parseRows(_, _, _, _, _)
parseRows(rows, i, times, rnds, out) ==
  IF i > Len(rows) THEN out
  ELSE LET v == normalizeRow(rows[i], i - 1, times[i], rnds[i]) IN
       parseRows(rows, i + 1, times, rnds, IF IsSome(v) THEN Append(out, Get(v)) ELSE out)

parseCSVText(table, times, rnds) == parseRows(table, 1, times, rnds, <<>>)

\* x || "" on an optional string
TextOrEmpty(o) == IF Truthy(o) THEN Get(o) ELSE <<>>
\* (x || []).join(";")
JoinedOrEmpty(o) == Join(IF IsSome(o) THEN Get(o) ELSE <<>>, <<";">>)
\* x ?? "" on an optional number, written out by Papa.unparse
NumberOrEmpty(o) == IF IsSome(o) THEN NumberToText(Get(o)) ELSE <<>>

\* one row of exportCSV
exportRow(v) ==
  <<Cell("zh_title", TextOrEmpty(v.zhTitle)), Cell("en_title", TextOrEmpty(v.enTitle)),
    Cell("zh_def", TextOrEmpty(v.zhDef)), Cell("en_def", TextOrEmpty(v.enDef)),
    Cell("category", TextOrEmpty(v.category)), Cell("tags", JoinedOrEmpty(v.tags)),
    Cell("example", TextOrEmpty(v.example)), Cell("details", TextOrEmpty(v.details)),
    Cell("images", JoinedOrEmpty(v.images)), Cell("frequency", NumberOrEmpty(v.frequency))>>

\* exportCSV: data.map(v => ({...})) handed to Papa.unparse
exportCSV(d) == [i \in 1..Len(d) |-> exportRow(d[i])]

-----------------------------------------------------------------------------
(* The derived view: filtered (useMemo)                                    *)

\* String.prototype.includes
Includes(h, q) == \E i \in 0..(Len(h) - Len(q)) : SubSeq(h, i + 1, i + Len(q)) = q

\* [zhTitle, enTitle, zhDef, enDef, category, example, (tags||[]).join(" ")]
\*   .filter(Boolean).join(" ").toLowerCase()
Haystack(v) ==
  LET parts == <<TextOrEmpty(v.zhTitle), TextOrEmpty(v.enTitle), TextOrEmpty(v.zhDef),
                 TextOrEmpty(v.enDef), TextOrEmpty(v.category), TextOrEmpty(v.example),
                 Join(IF IsSome(v.tags) THEN Get(v.tags) ELSE <<>>, <<"SP">>)>>
  IN ToLowerCase(Join(SelectSeq(parts, LAMBDA t : t # <<>>), <<"SP">>))

MatchesQuery(v, q) == Includes(Haystack(v), ToLowerCase(q))
\* (v.category||"") === category
MatchesCategory(v, c) == TextOrEmpty(v.category) = c
\* v.tags?.some(t => t === tag)
MatchesTag(v, t) == IsSome(v.tags) /\ \E i \in 1..Len(Get(v.tags)) : Get(v.tags)[i] = t
\* the favorites filter on the row index of the id alone
IsFavByRowIndex(v, fv) == \E f \in fv : f[2] = v.id[2]

\* !!favs[v.id]
IsFav(v, fv) == v.id \in fv

\* "all" in the category and tag selects
All == <<"all">>

\* An array value with its identity: "data" is the array held in the data state,
\* "fresh" any array created during the derivation.
DataArray(elems) == [ref |-> "data", elems |-> elems]
\* Array.prototype.filter returns a new array
FreshArray(elems) == [ref |-> "fresh", elems |-> elems]

\* let out = arr, without the copy
SpreadAlias(a) == a
\* let out = [...arr]
SpreadCopy(a) == [ref |-> "fresh", elems |-> a.elems]

\* localeCompare: the primary weight of a character (spaces, punctuation and
\* symbols before digits before letters; case does not count), then lower case
\* before upper case
PrimaryWeight(c) ==
  CASE c = "SP" -> 1 [] c = "," -> 2 [] c = ";" -> 3 [] c = "ZHCOMMA" -> 4 [] c = "DUN" -> 5
    [] c = "-" -> 6 [] c = "~" -> 7
    [] IsDigit(c) -> 10 + DigitVal(c)
    [] c \in {"a", "A"} -> 30 [] c \in {"b", "B"} -> 31 [] c \in {"c", "C"} -> 32
    [] c \in {"d", "D"} -> 33 [] c \in {"e", "E"} -> 34
    [] OTHER -> 40
CaseWeight(c) == IF c \in {"A", "B", "C", "D", "E"} THEN 1 ELSE 0

\* lexicographic comparison of two sequences of weights
RECURSIVE LexCompare(_, _)
LexCompare(s, t) ==
  IF s = <<>> /\ t = <<>> THEN 0
  ELSE IF s = <<>> THEN -1
  ELSE IF t = <<>> THEN 1
  ELSE IF Head(s) < Head(t) THEN -1
  ELSE IF Head(s) > Head(t) THEN 1
  ELSE LexCompare(Tail(s), Tail(t))

localeCompare(s, t) ==
  LET p == LexCompare([i \in 1..Len(s) |-> PrimaryWeight(s[i])],
                      [i \in 1..Len(t) |-> PrimaryWeight(t[i])])
  IN IF p # 0 THEN p
     ELSE LexCompare([i \in 1..Len(s) |-> CaseWeight(s[i])],
                     [i \in 1..Len(t) |-> CaseWeight(t[i])])

\* a.enTitle || a.zhTitle || ""
PreferredTitle(v) == TextOrEmpty(OrElse(v.enTitle, v.zhTitle))
UpperChar(c) == CASE c = "a" -> "A" [] c = "b" -> "B" [] c = "c" -> "C"
                  [] c = "d" -> "D" [] c = "e" -> "E" [] OTHER -> c
\* initial: (en[0] || "").toUpperCase() || undefined, and a.initial || "~"
InitialOrTilde(v) ==
  LET en == TextOrEmpty(v.enTitle)
  IN IF en = <<>> THEN <<"~">> ELSE <<UpperChar(Head(en))>>
\* a.category || "~"
CategoryOrTilde(v) == IF Truthy(v.category) THEN Get(v.category) ELSE <<"~">>
\* x || 0 on an optional number
NumberOrZero(o) == IF IsSome(o) THEN Get(o) ELSE 0

SortKeys == {"alpha", "initial", "category", "recent", "freq", "random"}

\* the comparator of each sort key: negative when a sorts before b
Comparator(key, a, b) ==
  CASE key = "alpha" -> localeCompare(PreferredTitle(a), PreferredTitle(b))
    [] key = "initial" ->
         LET c == localeCompare(InitialOrTilde(a), InitialOrTilde(b))
         IN IF c # 0 THEN c ELSE localeCompare(PreferredTitle(a), PreferredTitle(b))
    [] key = "category" ->
         LET c == localeCompare(CategoryOrTilde(a), CategoryOrTilde(b))
         IN IF c # 0 THEN c ELSE localeCompare(PreferredTitle(a), PreferredTitle(b))
    [] key = "recent" -> NumberOrZero(b.addedAt) - NumberOrZero(a.addedAt)
    [] key = "freq" -> NumberOrZero(b.frequency) - NumberOrZero(a.frequency)

\* a sort that puts x before the elements it ties with
RECURSIVE InsertBeforeTies(_, _, _)
InsertBeforeTies(sorted, x, key) ==
  IF sorted = <<>> THEN <<x>>
  ELSE IF Comparator(key, Head(sorted), x) < 0
       THEN <<Head(sorted)>> \o InsertBeforeTies(Tail(sorted), x, key)
       ELSE <<x>> \o sorted

\* Array.prototype.sort is stable: x goes after every element that does not
\* sort after it
RECURSIVE InsertSorted(_, _, _)
InsertSorted(sorted, x, key) ==
  IF sorted = <<>> THEN <<x>>
  ELSE IF Comparator(key, Head(sorted), x) <= 0
       THEN <<Head(sorted)>> \o InsertSorted(Tail(sorted), x, key)
       ELSE <<x>> \o sorted

RECURSIVE StableSort(_, _, _)
StableSort(elems, key, acc) ==
  IF elems = <<>> THEN acc
  ELSE StableSort(Tail(elems), key, InsertSorted(acc, Head(elems), key))

Permutation(elems, perm) == [i \in 1..Len(elems) |-> elems[perm[i]]]
Perms(n) == {f \in [1..n -> 1..n] : \A i, j \in 1..n : f[i] = f[j] => i = j}

\* out.sort(cmp) sorts the array in place; with the comparator
\* Math.random() - 0.5 the result is some permutation, here perm
SortInPlace(a, key, perm) ==
  [ref |-> a.ref,
   elems |-> IF key = "random" THEN Permutation(a.elems, perm)
             ELSE StableSort(a.elems, key, <<>>)]

\* the permutations the sort may produce
SortChoices(key, n) == IF key = "random" THEN Perms(n) ELSE {[i \in 1..n |-> i]}

Reverse(elems) == [i \in 1..Len(elems) |-> elems[Len(elems) + 1 - i]]

\* the filter steps with each filter collecting its matches by unshift
FilterStepsUnshift(d, q, c, t, fo, fv) ==
  LET keep(v) == /\ (Trim(q) = <<>> \/ MatchesQuery(v, q))
                 /\ (c = All \/ MatchesCategory(v, c))
                 /\ (t = All \/ MatchesTag(v, t))
                 /\ (~fo \/ IsFav(v, fv))
  IN IF Trim(q) = <<>> /\ c = All /\ t = All /\ ~fo THEN DataArray(d)
     ELSE FreshArray(Reverse(SelectSeq(d, keep)))

\* the filter steps without the favorites filter, as in the vocab2 variant
FilterStepsNoFavs(d, q, c, t, fo, fv) ==
  LET a0 == DataArray(d)
      a1 == IF Trim(q) # <<>> THEN FreshArray(SelectSeq(a0.elems, LAMBDA v : MatchesQuery(v, q))) ELSE a0
      a2 == IF c # All THEN FreshArray(SelectSeq(a1.elems, LAMBDA v : MatchesCategory(v, c))) ELSE a1
      a3 == IF t # All THEN FreshArray(SelectSeq(a2.elems, LAMBDA v : MatchesTag(v, t))) ELSE a2
  IN a3

\* the filter steps of filtered, in the order of the code; d, q, c, t, fo, fv
\* are data, query, category, tag, favOnly, favs
FilterSteps(d, q, c, t, fo, fv) ==
  LET a0 == DataArray(d)
      a1 == IF Trim(q) # <<>> THEN FreshArray(SelectSeq(a0.elems, LAMBDA v : MatchesQuery(v, q))) ELSE a0
      a2 == IF c # All THEN FreshArray(SelectSeq(a1.elems, LAMBDA v : MatchesCategory(v, c))) ELSE a1
      a3 == IF t # All THEN FreshArray(SelectSeq(a2.elems, LAMBDA v : MatchesTag(v, t))) ELSE a2
      a4 == IF fo THEN FreshArray(SelectSeq(a3.elems, LAMBDA v : IsFav(v, fv))) ELSE a3
  IN a4

\* filtered: arr is the array before the sort, out the array returned, data the
\* elements of the data array after the derivation; sb is the sort key
filtered(d, q, c, t, fo, fv, sb, perm) ==
  LET filteredArr == FilterSteps(d, q, c, t, fo, fv)
      out == SortInPlace(SpreadCopy(filteredArr), sb, perm)
  IN [arr |-> filteredArr.elems, out |-> out.elems,
      data |-> IF out.ref = "data" THEN out.elems ELSE d]

-----------------------------------------------------------------------------
(* The preferences and their localStorage keys                             *)

\* A string held as the text base passed quotes times through JSON.stringify:
\* zh is [base |-> "zh", quotes |-> 0] and "zh", with its quotation marks, is
\* [base |-> "zh", quotes |-> 1]
Text(base) == [base |-> base, quotes |-> 0]
\* JSON.stringify of a string
JsonStringify(s) == [s EXCEPT !.quotes = @ + 1]
\* JSON.stringify and JSON.parse of a boolean
StringifyBoolean(b) == IF b THEN "true" ELSE "false"
ParseBoolean(text) == text = "true"

\* localStorage.getItem(k) || fallback: the text as stored
getItemOr(item, fallback) == IF IsSome(item) THEN Get(item) ELSE fallback
\* load(k, fallback) of a boolean key
loadBoolean(item, fallback) == IF IsSome(item) THEN ParseBoolean(Get(item)) ELSE fallback

\* the save effects of uiLang, lang and dark
SavedPrefs(u, l, d) ==
  [uiLang |-> Some(JsonStringify(u)), lang |-> Some(JsonStringify(l)),
   dark |-> Some(StringifyBoolean(d))]

\* no preference key is stored: the first launch
NoPrefs == [uiLang |-> None, lang |-> None, dark |-> None]

\* the useState initialisers of uiLang, lang and dark
initialUiLang(ps) == getItemOr(ps.uiLang, Text("zh"))
initialLang(ps) == getItemOr(ps.lang, Text("both"))
initialDark(ps) == loadBoolean(ps.dark, FALSE)

\* the preferences after a mount that found ps in localStorage
PrefsFrom(ps) ==
  /\ uiLang = initialUiLang(ps) /\ lang = initialLang(ps) /\ dark = initialDark(ps)
  /\ prefStore = SavedPrefs(initialUiLang(ps), initialLang(ps), initialDark(ps))

\* the site variant is not part of the specifications of App
AdminOff == pageSearch = <<>> /\ viewOnly = FALSE /\ fixedRemote = None

\* A specification that does not follow the runs of the memo, or the loading
\* flag and its timers, starts memoRuns or timers at NotFollowed, and the
\* handlers then leave them alone.
NotFollowed == 0 - 1
MaxMemoRuns == 2
\* the callback of useMemo runs: the count, kept modulo MaxMemoRuns
MemoRun(m) == IF m = NotFollowed THEN m ELSE (m + 1) % MaxMemoRuns
\* setLoading(b)
SetLoading(b) == loading' = IF timers = NotFollowed THEN loading ELSE b
\* setTimeout(() => setLoading(false), 200)
ScheduleLoadingOff == timers' = IF timers = NotFollowed THEN timers ELSE timers + 1
StudyOff ==
  /\ cursor = 0 /\ memoRuns = NotFollowed /\ shuffles = 0
  /\ loading = FALSE /\ timers = NotFollowed

-----------------------------------------------------------------------------
(* Specification of normalizeRow as a pure function                        *)

pureVars == <<input, result, phase>>
prefVars == <<uiLang, lang, dark, prefStore>>
adminVars == <<pageSearch, viewOnly, fixedRemote>>
studyVars == <<cursor, memoRuns, shuffles, loading, timers>>
appVars == <<store, data, dataType, crashed, query, category, tag, sortBy, favOnly, favs,
             arr, view, derivedFrom, notice, startPc, startRes, urlPc, urlRes, filePc, now,
             prefVars, adminVars, studyVars>>
vars == <<pureVars, appVars>>

\* the application is not running in the pure-function specifications
NoResponse == [kind |-> "none", body |-> <<>>]
Missing == [kind |-> "missing", type |-> "none", elems |-> <<>>]
AppStateOff ==
  /\ store = [data |-> Missing, favs |-> {}, favOnly |-> FALSE]
  /\ data = <<>> /\ dataType = "array" /\ crashed = FALSE
  /\ query = <<>> /\ category = <<"all">> /\ tag = <<"all">> /\ sortBy = "alpha"
  /\ favOnly = FALSE /\ favs = {}
  /\ arr = <<>> /\ view = <<>> /\ derivedFrom = <<>>
  /\ notice = "none"
  /\ startPc = "off" /\ startRes = NoResponse
  /\ urlPc = "off" /\ urlRes = NoResponse /\ filePc = "off"
  /\ now = 0
  /\ PrefsFrom(NoPrefs)
AppOff == AppStateOff /\ AdminOff /\ StudyOff

\* rows of a CSV whose header is zh_title,zh_def,en_title,en_def
LangCells == {<<>>, <<"SP">>, <<"a">>, <<"SP", "b", "SP">>}
LangRows ==
  {<<Cell("zh_title", zt), Cell("zh_def", zd), Cell("en_title", et), Cell("en_def", ed)>> :
     zt \in LangCells, zd \in LangCells, et \in LangCells, ed \in LangCells}

\* a column left out of the CSV (or a short row) gives no entry at all
Absent == <<"ABSENT">>
Present(cells) == SelectSeq(cells, LAMBDA c : c.v # Absent)

\* rows exercising the Chinese aliases, columns in the reverse of alias order
ZhAliasRows ==
  {Present(<<Cell("biaoti", t3), Cell("zhongwen_biaoti", t2), Cell("zh_title", t1),
             Cell("shiyi", d2), Cell("zh_def", d1)>>) :
     t3 \in {Absent, <<>>, <<"c">>}, t2 \in {Absent, <<"SP">>, <<"b">>},
     t1 \in {Absent, <<>>, <<"a", "SP">>}, d2 \in {Absent, <<"SP">>, <<"e">>},
     d1 \in {Absent, <<>>, <<"d">>}}

\* rows exercising the English aliases, with headers in mixed case
EnAliasRows ==
  {Present(<<Cell("word", t5), Cell(" Term", t3), Cell("term_en", t2),
             Cell("En_Title ", t1), Cell("meaning", d3), Cell("en_def", d1)>>) :
     t5 \in {Absent, <<"SP">>, <<"c">>}, t3 \in {Absent, <<>>, <<"b">>},
     t2 \in {Absent, <<>>, <<"SP", "d">>}, t1 \in {Absent, <<"SP">>, <<"a">>},
     d3 \in {Absent, <<>>, <<"e">>}, d1 \in {Absent, <<"SP">>, <<"A">>}}

\* two headers that differ only in case, and the header both normalise to
CollidingRows ==
  {Present(<<Cell("zh_title", t1), Cell("ZH_TITLE", t2), Cell("zh_def", d1)>>) :
     t1 \in {Absent, <<>>, <<"a">>}, t2 \in {Absent, <<"SP">>, <<"b">>},
     d1 \in {Absent, <<"d">>}}

\* rows exercising the other columns
TagCells == {<<>>, <<";">>, <<"b", ";", "c">>, <<"b", ",", "SP", "c">>, <<"SP", "b", "DUN", "c">>}
ImageCells == {<<>>, <<"SP", ";">>, <<"b", ";", "c">>, <<"b", "DUN", "c">>}
FrequencyCells == {<<>>, <<"a">>, <<"0">>, <<"7">>, <<"SP", "1", "2">>, <<"-", "3">>, <<"INF">>}
FieldRows ==
  {<<Cell("zh_title", <<"a">>), Cell("category", c), Cell("tags", t), Cell("example", e),
     Cell("details", d), Cell("images", i), Cell("frequency", f)>> :
     c \in {<<>>, <<"SP", "c">>}, t \in TagCells, e \in {<<>>, <<"SP", "a", "SP">>},
     d \in {<<"SP">>, <<"b">>}, i \in ImageCells, f \in FrequencyCells}

\* rows carrying the frequency under one of its other aliases
FrequencyAliasRows ==
  {<<Cell("en_title", <<"b">>), Cell(k, f)>> : k \in {"freq", "quanzhong"}, f \in FrequencyCells}

NormRows == LangRows \cup ZhAliasRows \cup EnAliasRows \cup CollidingRows \cup FieldRows
              \cup FrequencyAliasRows

InitNormalize == /\ input \in NormRows
                 /\ result = None
                 /\ phase = "raw"
                 /\ AppOff

\* normalizeRow of the site.v2 variant: every column is read with a ?? chain,
\* lower[a] ?? lower[b] ?? ..., the value of the first candidate that is
\* present, blank or not
SiteZhTitleAliases == <<"zh_title", "zhongwen_biaoti", "biaoti", "term_zh">>
SiteEnTitleAliases == <<"en_title", "yingwen_biaoti", "word", "term_en", "term">>
SiteZhDefAliases == <<"zh_def", "zhongwen_shiyi", "shiyi", "meaning_cn", "definition_cn", "dingyi_zhong">>
SiteEnDefAliases == <<"en_def", "yingwen_shiyi", "definition", "meaning", "dingyi_ying">>
SiteCategoryAliases == <<"category", "leibie", "class", "type">>

RECURSIVE firstPresent(_, _)
firstPresent(lower, cands) ==
  IF cands = <<>> THEN None
  ELSE IF Head(cands) \in DOMAIN lower THEN Some(lower[Head(cands)])
       ELSE firstPresent(lower, Tail(cands))

\* chain ?? "": the string a column chain yields
firstPresentOrEmpty(lower, cands) ==
  LET o == firstPresent(lower, cands) IN IF IsSome(o) THEN Get(o) ELSE <<>>

\* Number(lower["frequency"] ?? lower["freq"] ?? lower[quanzhong] ?? NaN)
\* where every present cell counts, a blank one included
siteFrequency(lower) ==
  LET o == firstPresent(lower, FrequencyAliases) IN
  IF IsSome(o) THEN NumberOfText(Get(o)) ELSE NaN

\* s ? String(s) : undefined
NonEmptyOrUndefined(s) == IF s # <<>> THEN Some(s) ELSE None

normalizeRowSite(row, idx, at, rnd) ==
  LET lower == Lower(row)
      zhTitle == firstPresentOrEmpty(lower, SiteZhTitleAliases)
      enTitle == firstPresentOrEmpty(lower, SiteEnTitleAliases)
      zhDef == firstPresentOrEmpty(lower, SiteZhDefAliases)
      enDef == firstPresentOrEmpty(lower, SiteEnDefAliases)
      categoryRaw == firstPresentOrEmpty(lower, SiteCategoryAliases)
      tagsRaw == firstPresentOrEmpty(lower, TagsAliases)
      example == firstPresentOrEmpty(lower, ExampleAliases)
      details == firstPresentOrEmpty(lower, DetailsAliases)
      imagesRaw == firstPresentOrEmpty(lower, ImagesAliases)
      frequency == siteFrequency(lower)
      en == Trim(enTitle)
      initial == IF en = <<>> THEN <<>> ELSE <<UpperChar(en[1])>>
  IN IF zhTitle = <<>> /\ enTitle = <<>> /\ zhDef = <<>> /\ enDef = <<>> THEN None
     ELSE Some([id |-> VocabId(at, idx, rnd),
                zhTitle |-> Some(Trim(IF zhTitle # <<>> THEN zhTitle ELSE en)),
                enTitle |-> Some(en),
                zhDef |-> Some(Trim(zhDef)),
                enDef |-> Some(Trim(enDef)),
                category |-> NonEmptyOrUndefined(Trim(categoryRaw)),
                tags |-> Some(SplitNonEmpty(tagsRaw, TagDelims)),
                example |-> NonEmptyOrUndefined(example),
                details |-> NonEmptyOrUndefined(details),
                images |-> Some(SplitNonEmpty(imagesRaw, ImageDelims)),
                initial |-> NonEmptyOrUndefined(initial),
                frequency |-> IF isFinite(frequency) THEN Some(frequency.val) ELSE None,
                addedAt |-> Some(at)])

Normalize == /\ phase = "raw"
             /\ result' = normalizeRow(input, 0, 1, "r1")
             /\ phase' = "normalized"
             /\ UNCHANGED <<input, appVars>>

\* the same call in the site.v2 variant
NormalizeSite == /\ phase = "raw"
                 /\ result' = normalizeRowSite(input, 0, 1, "r1")
                 /\ phase' = "normalized-site"
                 /\ UNCHANGED <<input, appVars>>

NextNormalize == Normalize \/ NormalizeSite
SpecNormalize == InitNormalize /\ [][NextNormalize]_vars

-----------------------------------------------------------------------------
(* Properties of normalizeRow                                              *)
Max(S) == CHOOSE x \in S : \A y \in S : y <= x
Min(S) == CHOOSE x \in S : \A y \in S : x <= y

\* the value a row gives for a normalised header name: that of the last column
\* whose header normalises to it
ValueOf(row, name) ==
  LET I == {i \in 1..Len(row) : KeyLowerTrim(row[i].k) = name}
  IN IF I = {} THEN None ELSE Some(row[Max(I)].v)

NonBlank(o) == IsSome(o) /\ Trim(Get(o)) # <<>>

\* the trimmed value of the first alias, in alias order, that is not blank
FirstAliasValue(row, aliases) ==
  LET J == {j \in 1..Len(aliases) : NonBlank(ValueOf(row, aliases[j]))}
  IN IF J = {} THEN None ELSE Some(Trim(Get(ValueOf(row, aliases[Min(J)]))))

CompleteZhPair(row) ==
  IsSome(FirstAliasValue(row, ZhTitleAliases)) /\ IsSome(FirstAliasValue(row, ZhDefAliases))
CompleteEnPair(row) ==
  IsSome(FirstAliasValue(row, EnTitleAliases)) /\ IsSome(FirstAliasValue(row, EnDefAliases))

\* C1: a raw record with neither a complete Chinese pair (title and definition)
\* nor a complete English pair normalises to null.
C1_IncompleteRowIsNull ==
  (phase = "normalized" /\ ~CompleteZhPair(input) /\ ~CompleteEnPair(input))
    => result = None

-----------------------------------------------------------------------------
(* Specification of import, export and re-import                           *)
MaxRows == 2

RtRows ==
  { <<Cell("zh_title", <<"a">>), Cell("en_title", <<>>), Cell("zh_def", <<"d">>)>>,
    <<Cell("zh_title", <<"SP">>), Cell("category", <<"c">>)>>,
    <<Cell("category", <<"c">>)>>,
    <<Cell("term", <<"SP", "b">>), Cell("meaning", <<"e", "SP", "e">>),
      Cell("leibie", <<"c", "SP">>), Cell("biaoqian", <<"b", ",", "SP", "c">>),
      Cell("liju", <<"SP", "a", "SP">>), Cell("beizhu", <<"b">>),
      Cell("tupian", <<"b", "DUN", "c", "SP", "a">>), Cell("quanzhong", <<"SP", "0", "7">>)>>,
    <<Cell("zh_title", <<"a">>), Cell("tags", <<"b", ";", "c">>), Cell("frequency", <<"0">>)>>,
    <<Cell("zh_title", <<"a">>), Cell("tags", <<";">>)>>,
    <<Cell("en_def", <<"A">>), Cell("images", <<",", "SP">>)>>,
    <<Cell("en_title", <<"b">>), Cell("frequency", <<"-", "3">>), Cell("example", <<"SP">>)>>,
    <<Cell("zh_def", <<"d">>), Cell("frequency", <<"a">>), Cell("details", <<"SP", "b">>)>> }

RECURSIVE TablesUpTo(_, _)
TablesUpTo(rows, n) ==
  IF n = 0 THEN {<<>>}
  ELSE LET shorter == TablesUpTo(rows, n - 1)
       IN shorter \cup {Append(t, r) : t \in {u \in shorter : Len(u) = n - 1}, r \in rows}

RtTables == TablesUpTo(RtRows, MaxRows)

RandomSuffixes == {"r1", "r2"}

InitRoundTrip == /\ input \in RtTables
                 /\ result = [c |-> <<>>, csv |-> <<>>, c2 |-> <<>>]
                 /\ phase = "table"
                 /\ AppOff

\* parseCSVText on the input table
RtImport == /\ phase = "table"
            /\ \E rnds \in [1..Len(input) -> RandomSuffixes] :
                 result' = [result EXCEPT !.c = parseCSVText(input, [i \in 1..Len(input) |-> 1], rnds)]
            /\ phase' = "imported"
            /\ UNCHANGED <<input, appVars>>

\* exportCSV on the imported Collection
RtExport == /\ phase = "imported"
            /\ result' = [result EXCEPT !.csv = exportCSV(result.c)]
            /\ phase' = "exported"
            /\ UNCHANGED <<input, appVars>>

\* parseCSVText on the exported CSV, at a later time
RtReimport == /\ phase = "exported"
              /\ \E rnds \in [1..Len(result.csv) -> RandomSuffixes] :
                   result' = [result EXCEPT !.c2 =
                                parseCSVText(result.csv, [i \in 1..Len(result.csv) |-> 2], rnds)]
              /\ phase' = "reimported"
              /\ UNCHANGED <<input, appVars>>

NextRoundTrip == RtImport \/ RtExport \/ RtReimport
SpecRoundTrip == InitRoundTrip /\ [][NextRoundTrip]_vars

ContentFields ==
  {"zhTitle", "enTitle", "zhDef", "enDef", "category", "tags", "example", "details",
   "images", "frequency"}

\* equal in every field except id and addedAt
SameContent(v, w) == \A f \in ContentFields : v[f] = w[f]

\* C2: re-importing the export of an imported Collection gives a Collection of
\* the same length whose entries equal the original's, position by position, in
\* every field except id and addedAt.
C2_RoundTrip ==
  phase = "reimported"
    => /\ Len(result.c2) = Len(result.c)
       /\ \A i \in 1..Len(result.c) : SameContent(result.c[i], result.c2[i])

\* the rows of the table that normalise to an entry
ValidRows(table) == {i \in 1..Len(table) : IsSome(normalizeRow(table[i], i - 1, 1, "r1"))}

\* the k-th smallest element of a set of numbers
RECURSIVE KthSmallest(_, _)
KthSmallest(S, k) == IF k = 1 THEN Min(S) ELSE KthSmallest(S \ {Min(S)}, k - 1)

\* C7: parseCSVText resolves with exactly the entries of the valid rows, in CSV
\* row order; the number of entries is the number of rows that normalise to
\* non-null, whatever the mix of valid and invalid rows.
C7_ValidRowsInOrder ==
  phase # "table"
    => /\ Len(result.c) = Cardinality(ValidRows(input))
       /\ \A k \in 1..Len(result.c) :
            LET i == KthSmallest(ValidRows(input), k) IN
              /\ result.c[k].id[2] = i - 1
              /\ SameContent(result.c[k], Get(normalizeRow(input[i], i - 1, 1, "r1")))

\* C7 witness: an invalid row before a valid one; the import kept the valid one
C7_Witness ==
  /\ phase = "imported"
  /\ Len(input) = 2
  /\ ValidRows(input) = {2}
  /\ Len(result.c) = 1
  /\ result.c[1].id[2] = 1

-----------------------------------------------------------------------------
(* The application                                                         *)

\* localStorage text: a missing key, text that is not JSON, or the JSON of a
\* value (null, an object, a string, an array of entries)
Corrupt == [kind |-> "corrupt", type |-> "none", elems |-> <<>>]
JsonOf(type, elems) == [kind |-> "json", type |-> type, elems |-> elems]
\* JSON.stringify(data)
Stringify(elems) == JsonOf("array", elems)

\* load(STORAGE_KEY, []): try { raw ? JSON.parse(raw) : fallback } catch { fallback }
load(raw) ==
  IF raw.kind = "json" THEN [type |-> raw.type, elems |-> raw.elems]
  ELSE [type |-> "array", elems |-> <<>>]

MaxClock == 2

\* the rows of the CSV files of the application specification
RowA == <<Cell("zh_title", <<"a">>), Cell("en_title", <<"b">>), Cell("category", <<"c">>),
          Cell("tags", <<"b", ";", "c">>), Cell("frequency", <<"7">>)>>
RowB == <<Cell("en_title", <<"A">>), Cell("zh_def", <<"d">>), Cell("tags", <<"d">>),
          Cell("freq", <<"-", "3">>)>>
RowX == <<Cell("category", <<"c">>)>>
RowC == <<Cell("term", <<"c">>), Cell("meaning", <<"e">>), Cell("category", <<"e">>),
          Cell("freq", <<"1", "2">>)>>
\* the CSV files the user picks, and the bodies of the responses to fetch
FileTables == {<<>>, <<RowA>>, <<RowX, RowB>>, <<RowA, RowB>>}
FetchBodies == {<<RowX>>, <<RowB, RowA>>}

\* the sample of the startup fallback: a header line and one row
StartupSample ==
  << <<Cell("zh_title", <<"a">>), Cell("en_title", <<"D">>), Cell("zh_def", <<"d">>),
       Cell("en_def", <<"e">>), Cell("category", <<"c">>), Cell("tags", <<"b", ";", "c">>)>> >>

\* Date.now() at each row of a parse: it does not go back
RowTimes(n, from) ==
  {ts \in [1..n -> from..MaxClock] : \A i \in 1..n : \A j \in 1..n : i <= j => ts[i] <= ts[j]}

\* the Collections an earlier session may have saved
PriorCollections ==
  {parseCSVText(t, [i \in 1..Len(t) |-> 0], [i \in 1..Len(t) |-> "r1"]) : t \in FileTables}

StoredDataTexts ==
  {Missing, Corrupt, JsonOf("null", <<>>), JsonOf("object", <<>>), JsonOf("string", <<>>)}
    \cup {Stringify(c) : c \in PriorCollections}

Queries == {<<>>, <<"SP">>, <<"C">>}

\* allCategories / allTags: the options of the selects
allCategories(d) == {All} \cup {Get(d[i].category) : i \in {j \in 1..Len(d) : Truthy(d[j].category)}}
allTags(d) ==
  {All} \cup UNION {{Get(d[i].tags)[k] : k \in 1..Len(Get(d[i].tags))} :
                      i \in {j \in 1..Len(d) : IsSome(d[j].tags)}}

\* render after a state update: filtered is recomputed and the effects save
\* data, favs and favOnly
Render(d, q, c, t, fo, fv, sb) ==
  \E perm \in SortChoices(sb, Len(FilterSteps(d, q, c, t, fo, fv).elems)) :
    LET r == filtered(d, q, c, t, fo, fv, sb, perm) IN
      /\ data' = r.data
      /\ arr' = r.arr
      /\ view' = r.out
      /\ derivedFrom' = d
      /\ memoRuns' = MemoRun(memoRuns)
      /\ store' = [data |-> Stringify(r.data), favs |-> fv, favOnly |-> fo]

\* a sort key that outlives the page
initialSortByKept == sortBy
\* useState("alpha"): the sort key of a new page, whatever localStorage holds
initialSortBy == "alpha"

\* the startup effect without its guard
startupEffectUnguarded(d) == "fetching"
\* the startup effect on mount: if (data.length) return; else fetch(DEFAULT_REMOTE_URL)
startupEffect(d) == IF Len(d) > 0 THEN "done" ELSE "fetching"

\* the state after construction: useState initialisers, the first render, and
\* the effects that run on mount
Construct(st, ps) ==
  LET loaded == load(st.data) IN
    /\ dataType' = loaded.type
    /\ crashed' = (loaded.type # "array")
    /\ query' = <<>> /\ category' = All /\ tag' = All /\ sortBy' = initialSortBy
    /\ favOnly' = st.favOnly /\ favs' = st.favs
    /\ uiLang' = initialUiLang(ps) /\ lang' = initialLang(ps) /\ dark' = initialDark(ps)
    /\ notice' = "none"
    /\ urlPc' = "idle" /\ urlRes' = NoResponse /\ filePc' = "idle"
    /\ startRes' = NoResponse
    /\ cursor' = 0 /\ shuffles' = shuffles
    /\ timers' = IF timers = NotFollowed THEN timers ELSE 0
    /\ SetLoading(loaded.type = "array" /\ startupEffect(loaded.elems) = "fetching")
    /\ IF loaded.type = "array"
       THEN /\ Render(loaded.elems, <<>>, All, All, st.favOnly, st.favs, "alpha")
            /\ prefStore' = SavedPrefs(initialUiLang(ps), initialLang(ps), initialDark(ps))
            /\ startPc' = startupEffect(loaded.elems)
       ELSE /\ data' = <<>> /\ arr' = <<>> /\ view' = <<>> /\ derivedFrom' = <<>>
            /\ memoRuns' = memoRuns
            /\ store' = st /\ prefStore' = ps
            /\ startPc' = "idle"

Started ==
  /\ input = <<>> /\ result = <<>> /\ phase = "app"
  /\ now = 1
  /\ \E raw \in StoredDataTexts :
       LET st == [data |-> raw, favs |-> {}, favOnly |-> FALSE]
           loaded == load(raw)
           r == filtered(loaded.elems, <<>>, All, All, FALSE, {}, "alpha", <<>>)
       IN /\ dataType = loaded.type
          /\ crashed = (loaded.type # "array")
          /\ query = <<>> /\ category = All /\ tag = All /\ sortBy = "alpha"
          /\ favOnly = FALSE /\ favs = {}
          /\ notice = "none"
          /\ urlPc = "idle" /\ urlRes = NoResponse /\ filePc = "idle"
          /\ startRes = NoResponse
          /\ IF loaded.type = "array"
             THEN /\ data = r.data /\ arr = r.arr /\ view = r.out
                  /\ derivedFrom = loaded.elems
                  /\ store = [st EXCEPT !.data = Stringify(r.data)]
                  /\ startPc = startupEffect(loaded.elems)
             ELSE /\ data = <<>> /\ arr = <<>> /\ view = <<>> /\ derivedFrom = <<>>
                  /\ store = st
                  /\ startPc = "idle"
          /\ uiLang = initialUiLang(NoPrefs) /\ lang = initialLang(NoPrefs)
          /\ dark = initialDark(NoPrefs)
          /\ prefStore = IF loaded.type = "array"
                         THEN SavedPrefs(uiLang, lang, dark) ELSE NoPrefs
          /\ AdminOff

Init == Started /\ StudyOff

Running == phase = "app" /\ ~crashed

\* a response to fetch: the promise rejects, or resolves with a status and a body
Responses ==
  {[kind |-> "rejected", body |-> <<>>]}
    \cup {[kind |-> k, body |-> t] : k \in {"ok", "notok"}, t \in FetchBodies}

\* setData(out) after parsing a table, then the toast
ImportTable(table, toast) ==
  \E times \in RowTimes(Len(table), now) : \E rnds \in [1..Len(table) -> RandomSuffixes] :
    LET out == parseCSVText(table, times, rnds) IN
      /\ Render(out, query, category, tag, favOnly, favs, sortBy)
      /\ now' = IF Len(table) = 0 THEN now ELSE times[Len(table)]
      /\ notice' = toast

\* the startup effect: fetch(DEFAULT_REMOTE_URL) settles
StartupSettle ==
  /\ Running /\ startPc = "fetching"
  /\ \E res \in Responses : startRes' = res
  /\ startPc' = "settled"
  /\ UNCHANGED <<studyVars, pureVars, prefVars, adminVars, store, data, dataType, crashed, query, category, tag, sortBy,
                 favOnly, favs, arr, view, derivedFrom, notice, urlPc, urlRes, filePc, now>>

\* the startup effect after the fetch: load the response, or the sample in catch
StartupFinish ==
  /\ Running /\ startPc = "settled"
  /\ IF startRes.kind = "ok"
     THEN ImportTable(startRes.body, "loaded")
     ELSE ImportTable(StartupSample, "sample-fallback")
  /\ startPc' = "done"
  /\ startRes' = NoResponse
  /\ ScheduleLoadingOff
  /\ UNCHANGED <<cursor, shuffles, loading, pureVars, prefVars, adminVars, dataType, crashed, query, category, tag, sortBy, favOnly, favs,
                 urlPc, urlRes, filePc>>

Urls == {<<>>, <<"u">>}

\* handleURL(url) up to the fetch
UrlStart ==
  /\ Running /\ urlPc = "idle"
  /\ \E url \in Urls : url # <<>>
  /\ urlPc' = "fetching"
  /\ SetLoading(TRUE)
  /\ UNCHANGED <<cursor, memoRuns, shuffles, timers, pureVars, prefVars, adminVars, store, data, dataType, crashed, query, category, tag, sortBy,
                 favOnly, favs, arr, view, derivedFrom, notice, startPc, startRes, urlRes,
                 filePc, now>>

\* fetch(url) settles
UrlSettle ==
  /\ Running /\ urlPc = "fetching"
  /\ \E res \in Responses : urlRes' = res
  /\ urlPc' = "settled"
  /\ UNCHANGED <<studyVars, pureVars, prefVars, adminVars, store, data, dataType, crashed, query, category, tag, sortBy,
                 favOnly, favs, arr, view, derivedFrom, notice, startPc, startRes, filePc, now>>

\* handleURL after the fetch: res.text(), parseCSVText, setData; catch: toast.error
UrlFinish ==
  /\ Running /\ urlPc = "settled"
  /\ IF urlRes.kind = "rejected"
     THEN /\ notice' = "url-error"
          /\ UNCHANGED <<store, data, arr, view, derivedFrom, memoRuns, now>>
     ELSE ImportTable(urlRes.body, "url-imported")
  /\ urlPc' = "idle"
  /\ urlRes' = NoResponse
  /\ ScheduleLoadingOff
  /\ UNCHANGED <<cursor, shuffles, loading, pureVars, prefVars, adminVars, dataType, crashed, query, category, tag, sortBy, favOnly, favs,
                 startPc, startRes, filePc>>

\* handleFile(file) up to file.text()
FileStart ==
  /\ Running /\ filePc = "idle"
  /\ filePc' = "reading"
  /\ SetLoading(TRUE)
  /\ UNCHANGED <<cursor, memoRuns, shuffles, timers, pureVars, prefVars, adminVars, store, data, dataType, crashed, query, category, tag, sortBy,
                 favOnly, favs, arr, view, derivedFrom, notice, startPc, startRes, urlPc,
                 urlRes, now>>

\* handleFile after file.text(): parseCSVText, setData
FileFinish ==
  /\ Running /\ filePc = "reading"
  /\ \E table \in FileTables : ImportTable(table, "imported")
  /\ filePc' = "idle"
  /\ ScheduleLoadingOff
  /\ UNCHANGED <<cursor, shuffles, loading, pureVars, prefVars, adminVars, dataType, crashed, query, category, tag, sortBy, favOnly, favs,
                 startPc, startRes, urlPc, urlRes>>

QueryChange(q, c, t, fo, fv, sb) ==
  /\ Running
  /\ query' = q /\ category' = c /\ tag' = t /\ favOnly' = fo /\ favs' = fv /\ sortBy' = sb
  /\ Render(data, q, c, t, fo, fv, sb)
  /\ UNCHANGED <<cursor, loading, timers, pureVars, prefVars, adminVars, dataType, crashed,
                 notice, startPc, startRes, urlPc, urlRes, filePc, now>>

\* a change of the QueryState from a control other than the shuffle button
QueryUpdate(q, c, t, fo, fv, sb) ==
  QueryChange(q, c, t, fo, fv, sb) /\ UNCHANGED shuffles

SetQuery == \E q \in Queries : q # query /\ QueryUpdate(q, category, tag, favOnly, favs, sortBy)
SetCategory ==
  \E c \in allCategories(data) : c # category /\ QueryUpdate(query, c, tag, favOnly, favs, sortBy)
SetTag == \E t \in allTags(data) : t # tag /\ QueryUpdate(query, category, t, favOnly, favs, sortBy)
SetSortBy == \E k \in SortKeys : k # sortBy /\ QueryUpdate(query, category, tag, favOnly, favs, k)
SetFavOnly == QueryUpdate(query, category, tag, ~favOnly, favs, sortBy)

MaxFavs == 1

\* the study list with the view as it is, without the fallback
studyListNoFallback(f, d) == f
\* studyList: filtered.length ? filtered : data
studyList(f, d) == IF Len(f) > 0 THEN f ELSE d

\* the entries shown in list mode: filtered.length ? filtered : data
Displayed == IF Len(view) > 0 THEN view ELSE data

\* setFavs without the delete branch
toggleFavAddOnly(prev, id) == prev \cup {id}
\* the updater of toggleFav: n = {...prev}; n[id] ? delete n[id] : n[id] = true
toggleFavUpdater(prev, id) == IF id \in prev THEN prev \ {id} ELSE prev \cup {id}

\* toggleFav(id) from the star of a displayed entry
toggleFav(id) ==
  /\ id \in favs \/ Cardinality(favs) < MaxFavs
  /\ QueryUpdate(query, category, tag, favOnly,
                 toggleFavUpdater(favs, id), sortBy)
ToggleFav == \E i \in 1..Len(Displayed) : toggleFav(Displayed[i].id)

\* the reset button
Reset ==
  /\ <<query, category, tag, sortBy, favOnly>> # <<<<>>, All, All, "alpha", FALSE>>
  /\ QueryUpdate(<<>>, All, All, FALSE, favs, "alpha")

\* the reloads of a session, counted by the quotation marks gathered
MaxQuotes == 2

\* the page is reloaded: everything is constructed again from localStorage
Reload ==
  /\ phase = "app"
  /\ uiLang.quotes < MaxQuotes /\ lang.quotes < MaxQuotes
  /\ Construct(store, prefStore)
  /\ UNCHANGED <<pureVars, adminVars, now>>

\* the life cycle of the application: construction, the startup load, the
\* imports and reload, with the QueryState as constructed
Next ==
  \/ StartupSettle \/ StartupFinish
  \/ UrlStart \/ UrlSettle \/ UrlFinish
  \/ FileStart \/ FileFinish
  \/ Reload

Spec == Init /\ [][Next]_vars

-----------------------------------------------------------------------------
(* Specification of the view: a loaded Collection, and the user working    *)
(* the search box, the selects, the favorites and the reset button         *)

\* the CSV files whose import precedes the session at the view
ViewTables == {<<RowB, RowA>>, <<RowC, RowA, RowB>>}

\* the Collections their import leaves in data
ImportedCollections ==
  UNION {{parseCSVText(t, times, [i \in 1..Len(t) |-> "r1"]) : times \in RowTimes(Len(t), 1)} :
         t \in ViewTables}

ViewLoaded ==
  /\ input = <<>> /\ result = <<>> /\ phase = "app"
  /\ now = MaxClock
  /\ \E d \in ImportedCollections :
       LET r == filtered(d, <<>>, All, All, FALSE, {}, "alpha", <<>>) IN
         /\ data = r.data /\ arr = r.arr /\ view = r.out /\ derivedFrom = d
         /\ store = [data |-> Stringify(r.data), favs |-> {}, favOnly |-> FALSE]
  /\ dataType = "array" /\ crashed = FALSE
  /\ query = <<>> /\ category = All /\ tag = All /\ sortBy = "alpha"
  /\ favOnly = FALSE /\ favs = {}
  /\ notice = "imported"
  /\ startPc = "done" /\ startRes = NoResponse
  /\ urlPc = "idle" /\ urlRes = NoResponse /\ filePc = "idle"
  /\ PrefsFrom(NoPrefs) /\ AdminOff

InitView == ViewLoaded /\ StudyOff

NextView == SetQuery \/ SetCategory \/ SetTag \/ SetSortBy \/ SetFavOnly \/ ToggleFav \/ Reset

SpecView == InitView /\ [][NextView]_vars

-----------------------------------------------------------------------------
(* Properties of the life cycle                                            *)

\* C3: when the fetch of handleURL fails (the promise rejects, or the response
\* is not OK), handleURL shows the error notice and leaves the Collection as
\* it was.
C3_UrlFailureKeepsCollection ==
  [][(UrlFinish /\ urlRes.kind \in {"rejected", "notok"})
       => (notice' = "url-error" /\ data' = data)]_vars

\* the content of the built-in sample of the startup fallback
IsStartupSample(d) ==
  /\ Len(d) = 1
  /\ SameContent(d[1], Get(normalizeRow(StartupSample[1], 0, 0, "r1")))

\* the table has no row that normalises to an entry
NoValidRow(table) == ValidRows(table) = {}

\* C4: the startup load of an empty stored Collection ends with a non-empty
\* Collection; when the fetch fails, is not OK, or parses to no valid entry, the
\* Collection is the built-in sample and the fallback notice is shown.
C4_StartupNeverEmpty ==
  [][StartupFinish
       => /\ Len(data') > 0
          /\ (startRes.kind # "ok" \/ NoValidRow(startRes.body))
               => (IsStartupSample(data') /\ notice' = "sample-fallback")]_vars

\* C5: whatever text is stored under the Collection key, construction yields an
\* array (the stored array, or the fallback []) and rendering does not throw.
C5_LoadFallsBack ==
  phase = "app" => (dataType = "array" /\ ~crashed)

-----------------------------------------------------------------------------
(* Properties of the view                                                  *)

\* s is a subsequence of d: its elements are elements of d, in the order of d
IsSubsequence(s, d) ==
  \E f \in [1..Len(s) -> 1..Len(d)] :
    /\ \A i \in 1..Len(s) : d[f[i]] = s[i]
    /\ \A i \in 1..Len(s) : \A j \in 1..Len(s) : i < j => f[i] < f[j]

FilterActive == Trim(query) # <<>> \/ category # All \/ tag # All \/ favOnly

\* C8: under every combination of filters and every sort key, the view holds
\* only entries of the Collection, each at most once by id, and the filtered
\* entries before the sort are a subsequence of the Collection.
C8_ViewIsNarrowing ==
  phase = "app"
    => /\ IsSubsequence(arr, data)
       /\ \A i \in 1..Len(view) : \E j \in 1..Len(data) : view[i] = data[j]
       /\ \A i \in 1..Len(view) : \A j \in 1..Len(view) : view[i].id = view[j].id => i = j

\* C8 witness: a filter keeps two of three entries and the sort reorders them
C8_Witness ==
  /\ phase = "app" /\ FilterActive
  /\ Len(data) = 3 /\ Len(arr) = 2 /\ Len(view) = 2
  /\ view # arr

\* the entry passes every enabled filter
Passes(v) ==
  /\ (Trim(query) # <<>> => Includes(Haystack(v), ToLowerCase(query)))
  /\ (category # All => TextOrEmpty(v.category) = category)
  /\ (tag # All => (IsSome(v.tags) /\ tag \in {Get(v.tags)[k] : k \in 1..Len(Get(v.tags))}))
  /\ (favOnly => v.id \in favs)

\* C9: the view holds exactly the entries of the Collection that pass every
\* enabled filter; with only favorites-only on, favs = {X} and the Collection
\* [X, Y], the view is [X].
C9_ViewIsExactlyThePassing ==
  phase = "app"
    => /\ {view[i] : i \in 1..Len(view)} = {data[j] : j \in {k \in 1..Len(data) : Passes(data[k])}}
       /\ Len(view) = Cardinality({k \in 1..Len(data) : Passes(data[k])})
       /\ (/\ Len(data) = 2 /\ favOnly /\ favs = {data[1].id}
           /\ Trim(query) = <<>> /\ category = All /\ tag = All)
            => view = <<data[1]>>

\* C9 witness: scenario C, favorites-only with favs = {X} and Collection [X, Y]
C9_Witness ==
  /\ phase = "app"
  /\ Len(data) = 2 /\ favOnly /\ favs = {data[1].id}
  /\ Trim(query) = <<>> /\ category = All /\ tag = All
  /\ view = <<data[1]>>

\* C10: deriving the view leaves the Collection as it was: data holds the same
\* entries in the same order as when filtered was computed.
C10_DeriveKeepsCollection ==
  phase = "app" => data = derivedFrom

\* C10 witness: no filter is on, so filtered starts from the data array itself,
\* and the random sort returned the entries in another order
C10_Witness ==
  /\ phase = "app" /\ ~FilterActive /\ sortBy = "random"
  /\ Len(data) = 3 /\ Len(view) = 3 /\ view # data
  /\ data = derivedFrom

-----------------------------------------------------------------------------
(* Properties of the study list                                            *)

\* C11: whenever the derived view is empty and the Collection is not, the study
\* list is the full Collection; the study list is empty only when the
\* Collection is empty.
C11_StudyListFallsBack ==
  phase = "app"
    => /\ (Len(view) = 0 /\ Len(data) > 0) => studyList(view, data) = data
       /\ studyList(view, data) = <<>> => data = <<>>

\* C11 witness: the filters leave nothing of a Collection of three entries
C11_Witness ==
  /\ phase = "app" /\ FilterActive
  /\ Len(data) = 3 /\ Len(view) = 0
  /\ studyList(view, data) = data

-----------------------------------------------------------------------------
(* Specification of the favorites across imports: the user stars entries,  *)
(* turns favorites-only on and off, and replaces the Collection by file    *)
(* and by link                                                             *)

InitFavs ==
  /\ input = <<>> /\ result = <<>> /\ phase = "app"
  /\ now = MaxClock
  /\ LET d == parseCSVText(<<RowB, RowA>>, <<1, 1>>, <<"r1", "r1">>)
         r == filtered(d, <<>>, All, All, FALSE, {}, "alpha", <<>>) IN
       /\ data = r.data /\ arr = r.arr /\ view = r.out /\ derivedFrom = d
       /\ store = [data |-> Stringify(r.data), favs |-> {}, favOnly |-> FALSE]
  /\ dataType = "array" /\ crashed = FALSE
  /\ query = <<>> /\ category = All /\ tag = All /\ sortBy = "alpha"
  /\ favOnly = FALSE /\ favs = {}
  /\ notice = "imported"
  /\ startPc = "done" /\ startRes = NoResponse
  /\ urlPc = "idle" /\ urlRes = NoResponse /\ filePc = "idle"
  /\ PrefsFrom(NoPrefs) /\ AdminOff /\ StudyOff

NextFavs ==
  \/ ToggleFav \/ SetFavOnly
  \/ FileStart \/ FileFinish
  \/ UrlStart \/ UrlSettle \/ UrlFinish

SpecFavs == InitFavs /\ [][NextFavs]_vars

\* the ids of the entries of a Collection
Ids(d) == {d[i].id : i \in 1..Len(d)}

\* an import commits: setData(out) of the file import or of the link import
ImportCommits ==
  \/ FileFinish
  \/ UrlFinish /\ urlRes.kind # "rejected"

-----------------------------------------------------------------------------
(* Specification of toggleFav as a function of FavoriteSet: it is applied  *)
(* once and then once more with the same id                                *)

\* ids as normalizeRow builds them: Date.now(), the row index, the suffix
IdPool == {<<1, 0, "r1">>, <<1, 1, "r1">>, <<1, 1, "r2">>, <<2, 0, "r1">>}

InitToggle ==
  /\ \E prev \in SUBSET IdPool : \E id \in IdPool : input = [prev |-> prev, id |-> id]
  /\ result = input.prev
  /\ phase = "favs"
  /\ AppOff

ToggleOnce ==
  /\ phase = "favs"
  /\ result' = toggleFavUpdater(result, input.id)
  /\ phase' = "toggled"
  /\ UNCHANGED <<input, appVars>>

ToggleAgain ==
  /\ phase = "toggled"
  /\ result' = toggleFavUpdater(result, input.id)
  /\ phase' = "toggled-twice"
  /\ UNCHANGED <<input, appVars>>

NextToggle == ToggleOnce \/ ToggleAgain

SpecToggle == InitToggle /\ [][NextToggle]_vars

\* C13: toggleFav(id) flips the presence of id in FavoriteSet and of no other
\* id, and toggleFav(id) applied twice gives back the FavoriteSet it started
\* from.
C13_ToggleFlipsOneId ==
  /\ phase = "toggled"
       => \A x \in IdPool : (x \in result) <=> ((x \in input.prev) # (x = input.id))
  /\ phase = "toggled-twice" => result = input.prev

\* C13 witness: the id is added to two other favorites, and removed again
C13_Witness ==
  /\ phase = "toggled-twice"
  /\ Cardinality(input.prev) = 2 /\ input.id \notin input.prev
  /\ result = input.prev

-----------------------------------------------------------------------------
(* Properties of the ids                                                   *)

\* C14: in every Collection the entries have pairwise distinct ids, and a step
\* that is not the commit of an import (the startup load, handleFile or
\* handleURL passing its last await) leaves the entries of the Collection, ids
\* included, as they were.
C14_DistinctStableIds ==
  /\ [](phase = "app"
          => \A i \in 1..Len(data) : \A j \in 1..Len(data) : data[i].id = data[j].id => i = j)
  /\ [][\/ data' = data
        \/ startPc = "settled" /\ startPc' = "done"
        \/ filePc = "reading" /\ filePc' = "idle"
        \/ urlPc = "settled" /\ urlPc' = "idle"]_vars

\* C14 witness: an import of two rows normalised at the same time with the same
\* random suffix
C14_Witness ==
  /\ phase = "app" /\ notice \in {"imported", "url-imported", "loaded"}
  /\ Len(data) = 2
  /\ data[1].id[1] = data[2].id[1] /\ data[1].id[3] = data[2].id[3]
  /\ data[1].id # data[2].id

-----------------------------------------------------------------------------
(* Specification of the preferences: the user switches the UI language,   *)
(* the content-language mode and the theme, and reloads the page           *)

\* the UI language button: setUiLang(uiLang === 'zh' ? 'en' : 'zh')
SetUiLang ==
  /\ Running
  /\ uiLang' = IF uiLang = Text("zh") THEN Text("en") ELSE Text("zh")
  /\ prefStore' = [prefStore EXCEPT !.uiLang = Some(JsonStringify(uiLang'))]
  /\ UNCHANGED <<studyVars, pureVars, store, data, dataType, crashed, query, category, tag, sortBy,
                 favOnly, favs, arr, view, derivedFrom, notice, startPc, startRes, urlPc,
                 urlRes, filePc, now, lang, dark, adminVars>>

LangModes == {"zh", "en", "both"}

\* the content-language select: setLang(e.target.value)
SetLang ==
  /\ Running
  /\ \E v \in LangModes : Text(v) # lang /\ lang' = Text(v)
  /\ prefStore' = [prefStore EXCEPT !.lang = Some(JsonStringify(lang'))]
  /\ UNCHANGED <<studyVars, pureVars, store, data, dataType, crashed, query, category, tag, sortBy,
                 favOnly, favs, arr, view, derivedFrom, notice, startPc, startRes, urlPc,
                 urlRes, filePc, now, uiLang, dark, adminVars>>

\* the theme button: setDark(d => !d)
SetDark ==
  /\ Running
  /\ dark' = ~dark
  /\ prefStore' = [prefStore EXCEPT !.dark = Some(StringifyBoolean(dark'))]
  /\ UNCHANGED <<studyVars, pureVars, store, data, dataType, crashed, query, category, tag, sortBy,
                 favOnly, favs, arr, view, derivedFrom, notice, startPc, startRes, urlPc,
                 urlRes, filePc, now, uiLang, lang, adminVars>>

InitPrefs == InitFavs

NextPrefs == SetUiLang \/ SetLang \/ SetDark \/ Reload

SpecPrefs == InitPrefs /\ [][NextPrefs]_vars

\* C15: a reload gives each preference the value it had before the reload, the
\* value the user last set, so the UI language is always zh or en and the
\* content-language mode always zh, en or both.
C15_PreferencesSurviveReload ==
  /\ [](phase = "app"
          => /\ uiLang \in {Text("zh"), Text("en")}
             /\ lang \in {Text(v) : v \in LangModes})
  /\ [][Reload => (uiLang' = uiLang /\ lang' = lang /\ dark' = dark)]_vars

-----------------------------------------------------------------------------
(* Properties of the writers of the Collection                             *)

\* the operations that have started and have not yet called setData
InProgress ==
  {op \in {"startup", "url", "file"} :
     \/ op = "startup" /\ startPc \in {"fetching", "settled"}
     \/ op = "url" /\ urlPc \in {"fetching", "settled"}
     \/ op = "file" /\ filePc = "reading"}

\* C16: at most one operation that writes the Collection is in progress at any
\* time: an import that has started commits before another one starts.
C16_OneWriterAtATime ==
  phase = "app" => Cardinality(InProgress) <= 1

-----------------------------------------------------------------------------
(* Specification of view-only mode in the site variant: the page is loaded *)
(* with a query string, the user toggles view-only mode and uses the       *)
(* controls of the toolbar that are rendered                               *)

Param(k, v) == [k |-> k, v |-> v]

\* the query strings of the page URL
PageSearches ==
  {<<>>, <<Param("admin", "1")>>, <<Param("admin", "0")>>, <<Param("admin", "true")>>,
   <<Param("lang", "en")>>, <<Param("lang", "en"), Param("admin", "1")>>}

\* URLSearchParams.get: the value of the first pair with the key, or null
RECURSIVE urlParamsGet(_, _)
urlParamsGet(search, key) ==
  IF search = <<>> THEN None
  ELSE IF search[1].k = key THEN Some(search[1].v)
  ELSE urlParamsGet(Tail(search), key)

\* the toolbar with the export and management controls whatever the mode
AdminControlsAlways(vo) == {"export", "fixed-source", "file-import", "link-import", "sample"}
\* DEFAULT_VIEW_ONLY = urlParams.get("admin") !== "1"
DEFAULT_VIEW_ONLY(search) == urlParamsGet(search, "admin") # Some("1")
\* {!viewOnly && (<> export, fixed data source, file, link, sample </>)}
AdminControls(vo) ==
  IF vo THEN {} ELSE {"export", "fixed-source", "file-import", "link-import", "sample"}

FixedUrls == {<<"u">>, <<"v">>}

InitAdmin ==
  /\ input = <<>> /\ result = <<>> /\ phase = "site"
  /\ AppStateOff /\ StudyOff
  /\ pageSearch \in PageSearches
  /\ viewOnly = DEFAULT_VIEW_ONLY(pageSearch)
  /\ fixedRemote = None

\* the page is loaded with a query string: the module is evaluated again
PageLoad ==
  /\ phase = "site"
  /\ \E search \in PageSearches : pageSearch' = search
  /\ viewOnly' = DEFAULT_VIEW_ONLY(pageSearch')
  /\ input' = <<>> /\ result' = <<>>
  /\ UNCHANGED <<studyVars, phase, fixedRemote, store, data, dataType, crashed, query, category, tag,
                 sortBy, favOnly, favs, arr, view, derivedFrom, notice, startPc, startRes,
                 urlPc, urlRes, filePc, now, prefVars>>

\* the mode button: setViewOnly(v => !v)
ToggleViewOnly ==
  /\ phase = "site"
  /\ viewOnly' = ~viewOnly
  /\ UNCHANGED <<studyVars, pureVars, pageSearch, fixedRemote, store, data, dataType, crashed, query,
                 category, tag, sortBy, favOnly, favs, arr, view, derivedFrom, notice,
                 startPc, startRes, urlPc, urlRes, filePc, now, prefVars>>

\* the save button of the fixed data source: setFixedRemote(v) when v is not
\* empty
SetFixedRemote ==
  /\ phase = "site"
  /\ "fixed-source" \in AdminControls(viewOnly)
  /\ \E url \in FixedUrls : fixedRemote' = Some(url)
  /\ input' = <<"fixed-source">> /\ result' = <<"setFixedRemote">>
  /\ UNCHANGED <<studyVars, phase, pageSearch, viewOnly, store, data, dataType, crashed, query,
                 category, tag, sortBy, favOnly, favs, arr, view, derivedFrom, notice,
                 startPc, startRes, urlPc, urlRes, filePc, now, prefVars>>

\* the handler behind each of the other controls
HandlerOf(control) ==
  CASE control = "export" -> "exportCSV"
    [] control = "file-import" -> "handleFile"
    [] control = "link-import" -> "handleURL"
    [] control = "sample" -> "parseCSVText(SAMPLE_CSV)"

\* the user uses one of the other rendered controls: input is the control and
\* result the handler it calls
UseControl ==
  /\ phase = "site"
  /\ \E control \in AdminControls(viewOnly) \ {"fixed-source"} :
       input' = <<control>> /\ result' = <<HandlerOf(control)>>
  /\ UNCHANGED <<studyVars, phase, adminVars, store, data, dataType, crashed, query, category, tag,
                 sortBy, favOnly, favs, arr, view, derivedFrom, notice, startPc, startRes,
                 urlPc, urlRes, filePc, now, prefVars>>

NextAdmin == PageLoad \/ ToggleViewOnly \/ SetFixedRemote \/ UseControl

SpecAdmin == InitAdmin /\ [][NextAdmin]_vars

\* the query string has the pair admin=1
CarriesAdmin(search) == \E i \in 1..Len(search) : search[i] = Param("admin", "1")

\* C17: the page starts in view-only mode exactly when its URL does not carry
\* admin=1, and at any time the export, import and fixed-data-source controls
\* are there, and their handlers run, exactly when view-only mode is off.
C17_ViewOnlyGatesControls ==
  /\ viewOnly <=> ~CarriesAdmin(pageSearch)
  /\ [][PageLoad => (viewOnly' <=> ~CarriesAdmin(pageSearch'))]_vars
  /\ [](phase = "site"
          => /\ ~viewOnly => {"export", "fixed-source", "file-import", "link-import"}
                                \subseteq AdminControls(viewOnly)
             /\ viewOnly => AdminControls(viewOnly) = {})
  /\ [][(result' # result /\ result' # <<>>) \/ fixedRemote' # fixedRemote => ~viewOnly]_vars

\* C17 witness: the page was loaded without admin=1, the user switched
\* view-only mode off and saved a fixed data source
C17_Witness ==
  /\ phase = "site" /\ ~CarriesAdmin(pageSearch) /\ ~viewOnly
  /\ fixedRemote # None /\ result = <<"setFixedRemote">>

-----------------------------------------------------------------------------
(* Properties of the sort orders                                           *)

\* the place of an entry of the view in the Collection
PlaceInData(v) == CHOOSE i \in 1..Len(data) : data[i] = v
\* addedAt, a missing one counting as 0
AddedAtOrZero(v) == IF IsSome(v.addedAt) THEN Get(v.addedAt) ELSE 0

\* C18: with the sort key most-recent the view is in descending addedAt order,
\* and entries with equal addedAt are in the order they have in the
\* Collection.
C18_RecentIsStableDescending ==
  (phase = "app" /\ sortBy = "recent")
    => \A i \in 1..Len(view) : \A j \in 1..Len(view) :
         i < j => /\ AddedAtOrZero(view[i]) >= AddedAtOrZero(view[j])
                  /\ AddedAtOrZero(view[i]) = AddedAtOrZero(view[j])
                       => PlaceInData(view[i]) < PlaceInData(view[j])

\* C18 witness: three entries, the first two added at the same time and the
\* third later, so the sort moves the third to the front and keeps the tie
C18_Witness ==
  /\ phase = "app" /\ sortBy = "recent" /\ Len(view) = 3
  /\ AddedAtOrZero(data[1]) = AddedAtOrZero(data[2])
  /\ AddedAtOrZero(data[2]) < AddedAtOrZero(data[3])
  /\ view = <<data[3], data[1], data[2]>>

-----------------------------------------------------------------------------
(* The frequency column                                                    *)

\* the cells a raw record carries under the frequency aliases
FrequencyCellsOf(row) ==
  LET lower == Lower(row) IN
  {lower[k] : k \in {FrequencyAliases[i] : i \in DOMAIN FrequencyAliases} \cap DOMAIN lower}

IsFiniteNumberText(s) == Trim(s) # <<>> /\ isFinite(NumberOfText(s))

\* C19: for every raw record (with at most one frequency column), if the
\* frequency cell is missing, blank or not a finite number the normalized
\* entry has no frequency (undefined, never the number 0), and if it is a
\* finite number the entry's frequency is that number; in the application and
\* in the site variant of normalizeRow
C19_FrequencyIsNumberOrUndefined ==
  (phase \in {"normalized", "normalized-site"} /\ IsSome(result)
     /\ Cardinality(FrequencyCellsOf(input)) <= 1)
    => IF \E f \in FrequencyCellsOf(input) : IsFiniteNumberText(f)
       THEN \E f \in FrequencyCellsOf(input) :
              Get(result).frequency = Some(NumberOfText(f).val)
       ELSE Get(result).frequency = None

-----------------------------------------------------------------------------
(* The by-category order                                                   *)

HasCategory(v) == Truthy(v.category)

\* C20: with the sort key by-category every entry that has no category is
\* after every entry that has one, whatever the category names are, and
\* entries of the same category are in the alphabetical order of their
\* preferred titles.
C20_UncategorisedSortLast ==
  (phase = "app" /\ sortBy = "category")
    => \A i \in 1..Len(view) : \A j \in 1..Len(view) :
         i < j => /\ ~(~HasCategory(view[i]) /\ HasCategory(view[j]))
                  /\ (HasCategory(view[i]) /\ view[i].category = view[j].category)
                       => localeCompare(PreferredTitle(view[i]), PreferredTitle(view[j])) <= 0

-----------------------------------------------------------------------------
(* The tags and images columns                                             *)

\* the delimiters the specification names: comma, Chinese comma, semicolon,
\* Chinese enumeration comma and whitespace
ListDelimiters == {",", "ZHCOMMA", ";", "DUN", "SP"}

\* the number of maximal runs of characters of s that are not in delims
CountRuns(s, delims) ==
  Cardinality({i \in 1..Len(s) : /\ s[i] \notin delims
                                 /\ (i = 1 \/ s[i - 1] \in delims)})

RECURSIVE Concat(_)
Concat(parts) == IF parts = <<>> THEN <<>> ELSE Head(parts) \o Concat(Tail(parts))

\* a normalized list, an absent one counting as the empty list
ListOrEmpty(o) == IF IsSome(o) THEN Get(o) ELSE <<>>

\* parts is the list, in order, of the non-empty fragments of cell between
\* runs of the delimiters delims
IsSplitOn(parts, cell, delims) ==
  /\ \A i \in 1..Len(parts) :
       /\ parts[i] # <<>>
       /\ \A j \in 1..Len(parts[i]) : parts[i][j] \notin delims
  /\ Concat(parts) = SelectSeq(cell, LAMBDA c : c \notin delims)
  /\ Len(parts) = CountRuns(cell, delims)

-----------------------------------------------------------------------------
(* The frequencies of the Collection                                       *)

\* C22: in every reachable state every entry of the Collection has either no
\* frequency or a frequency that is a non-negative number.
C22_FrequenciesNonNegative ==
  (phase = "app" /\ dataType = "array")
    => \A i \in 1..Len(data) :
         IsSome(data[i].frequency) => Get(data[i].frequency) >= 0

-----------------------------------------------------------------------------
(* The fetch of the default data source                                    *)

\* startPc is "fetching" from the call of fetch(DEFAULT_REMOTE_URL) until the
\* response settles: the fetch is issued by the step that makes it so

-----------------------------------------------------------------------------
(* Specification of the shuffle control of study mode in the site variant  *)

MaxShuffles == 2

\* the shuffle button: onClick={() => setOrder("random")}.  A state setter
\* called with the value the state already has schedules no render, and
\* with unchanged dependencies the callback of useMemo does not run.
Shuffle ==
  /\ Running /\ shuffles < MaxShuffles
  /\ shuffles' = shuffles + 1
  /\ IF sortBy = "random"
     THEN UNCHANGED <<pureVars, prefVars, adminVars, store, data, dataType, crashed, query,
                      category, tag, sortBy, favOnly, favs, arr, view, derivedFrom, notice,
                      startPc, startRes, urlPc, urlRes, filePc, now, cursor, memoRuns,
                      loading, timers>>
     ELSE QueryChange(query, category, tag, favOnly, favs, "random")

\* the session starts at a loaded Collection, the runs of the memo counted
InitShuffle ==
  /\ ViewLoaded
  /\ cursor = 0 /\ memoRuns = 0 /\ shuffles = 0 /\ loading = FALSE /\ timers = NotFollowed

NextShuffle == Shuffle \/ SetSortBy \/ SetQuery \/ SetFavOnly

SpecShuffle == InitShuffle /\ [][NextShuffle]_vars

\* C24: every activation of the shuffle control, including when the sort key
\* is already random, re-derives the view, and the new view is a permutation
\* of the filtered entries.
C24_ShuffleAlwaysRederives ==
  [][shuffles' # shuffles
       => /\ memoRuns' # memoRuns
          /\ sortBy' = "random"
          /\ \E perm \in Perms(Len(arr')) : view' = Permutation(arr', perm)]_vars

-----------------------------------------------------------------------------
(* Specification of the sort key over reloads: the user picks sort keys    *)
(* and reloads the page                                                    *)

InitSort == InitView
NextSort == SetSortBy \/ Reload
SpecSort == InitSort /\ [][NextSort]_vars

-----------------------------------------------------------------------------
(* Specification of the flashcards: a loaded Collection, and the user      *)
(* pressing next and previous, changing the filters, starring and          *)
(* importing                                                               *)

\* Math.max(1, studyList.length)
AtLeastOne(n) == IF n < 1 THEN 1 ELSE n

\* next that stops at the last card
nextCardClamped(i, n) == IF i + 1 < n THEN i + 1 ELSE i
\* the updater of next: i => (i + 1) % Math.max(1, studyList.length)
nextCardUpdater(i, n) == (i + 1) % AtLeastOne(n)
\* the updater of previous:
\* i => (i - 1 + Math.max(1, studyList.length)) % Math.max(1, studyList.length)
prevCardUpdater(i, n) == (i - 1 + AtLeastOne(n)) % AtLeastOne(n)

\* current: studyList[idx % Math.max(1, studyList.length)] || null
current ==
  LET list == studyList(view, data) IN
  IF Len(list) = 0 THEN None ELSE Some(list[(cursor % AtLeastOne(Len(list))) + 1])

CardStep(next) ==
  /\ Running
  /\ cursor' = next
  /\ UNCHANGED <<pureVars, prefVars, adminVars, store, data, dataType, crashed, query, category,
                 tag, sortBy, favOnly, favs, arr, view, derivedFrom, notice, startPc, startRes,
                 urlPc, urlRes, filePc, now, memoRuns, shuffles, loading, timers>>

NextCard == CardStep(nextCardUpdater(cursor, Len(studyList(view, data))))
PrevCard == CardStep(prevCardUpdater(cursor, Len(studyList(view, data))))

InitCards == InitView
NextCards ==
  \/ NextCard \/ PrevCard
  \/ SetQuery \/ SetFavOnly \/ ToggleFav
  \/ FileStart \/ FileFinish

SpecCards == InitCards /\ [][NextCards]_vars

\* the place of the displayed card in the study list, from 0
Position == cursor % AtLeastOne(Len(studyList(view, data)))

\* C26: over any sequence of next, previous, filter changes, favorite toggles
\* and imports, the cursor is a non-negative integer; the current card is an
\* entry of the study list whenever the Collection is not empty; each next
\* and each previous moves the displayed position by exactly one, cyclically
\* within the study list as it is now, even after its length has changed;
\* and next followed by previous returns to the same card.
C26_CursorStaysOnTheStudyList ==
  /\ [](phase = "app"
          => LET list == studyList(view, data)
                 n == Len(list)
             IN /\ cursor \in Nat
                /\ Len(data) > 0
                     => /\ IsSome(current)
                        /\ \E i \in 1..n : list[i] = Get(current)
                /\ prevCardUpdater(nextCardUpdater(cursor, n), n) % AtLeastOne(n) = Position)
  /\ [][NextCard => LET n == AtLeastOne(Len(studyList(view, data)))
                    IN Position' = (Position + 1) % n]_vars
  /\ [][PrevCard => LET n == AtLeastOne(Len(studyList(view, data)))
                    IN (Position' + 1) % n = Position]_vars

\* C26 witness: the cursor was moved to the third card, then the study list
\* shrank to two cards; the card shown is the first
C26_Witness ==
  /\ phase = "app" /\ cursor = 2 /\ Len(studyList(view, data)) = 2
  /\ current = Some(studyList(view, data)[1])

-----------------------------------------------------------------------------
(* Specification of the loading flag: the life cycle of the application    *)
(* with the flag and its timers followed                                   *)

MaxTimers == 1

\* handleFile when file.text() rejects: the function throws after
\* setLoading(true), and nothing catches
FileFail ==
  /\ Running /\ filePc = "reading"
  /\ filePc' = "idle"
  /\ UNCHANGED <<pureVars, prefVars, adminVars, studyVars, store, data, dataType, crashed, query,
                 category, tag, sortBy, favOnly, favs, arr, view, derivedFrom, notice, startPc,
                 startRes, urlPc, urlRes, now>>

\* a timer fires: setLoading(false)
TimerFire ==
  /\ Running /\ timers > 0
  /\ timers' = timers - 1
  /\ loading' = FALSE
  /\ UNCHANGED <<pureVars, prefVars, adminVars, cursor, memoRuns, shuffles, store, data, dataType,
                 crashed, query, category, tag, sortBy, favOnly, favs, arr, view, derivedFrom,
                 notice, startPc, startRes, urlPc, urlRes, filePc, now>>

\* the writers of the Collection that have started and not finished
Importing ==
  {w \in {"startup", "file", "url"} :
     \/ w = "startup" /\ startPc \in {"fetching", "settled"}
     \/ w = "file" /\ filePc = "reading"
     \/ w = "url" /\ urlPc \in {"fetching", "settled"}}

\* the user starts an import only while few timers and imports are pending
MayStart == timers + Cardinality(Importing) < MaxTimers

\* the application starts with no entry stored, the flag followed: the
\* startup effect has called setLoading(true) and fetches
InitLoading ==
  /\ Started /\ dataType = "array" /\ Len(data) = 0
  /\ cursor = 0 /\ memoRuns = NotFollowed /\ shuffles = 0
  /\ timers = 0 /\ loading = (~crashed /\ startPc = "fetching")

NextLoading ==
  \/ StartupSettle \/ StartupFinish
  \/ (MayStart /\ UrlStart) \/ UrlSettle \/ UrlFinish
  \/ (MayStart /\ FileStart) \/ FileFinish \/ FileFail
  \/ TimerFire

\* A fetch settles and a timer fires (weak fairness of the step).  The
\* continuation of a settled promise runs, and a file read ends: the steps
\* StartupFinish, UrlFinish and FileFinish or FileFail are the only ones
\* that leave these positions and are enabled throughout them, so that weak
\* fairness of each is the same as not staying in the position for ever.
SpecLoading ==
  /\ InitLoading /\ [][NextLoading]_vars
  /\ WF_vars(StartupSettle) /\ WF_vars(UrlSettle) /\ WF_vars(TimerFire)
  /\ []<>(startPc # "settled") /\ []<>(urlPc # "settled") /\ []<>(filePc # "reading")

\* C27: after every import attempt (startup load, handleFile, handleURL),
\* whether it succeeds or fails at any step, the loading flag eventually
\* becomes false, and it stays false until the next import starts.
C27_LoadingEventuallyOff ==
  /\ (loading ~> ~loading)
  /\ [][(~loading /\ loading')
          => \/ filePc = "idle" /\ filePc' = "reading"
             \/ urlPc = "idle" /\ urlPc' = "fetching"]_vars
-----------------------------------------------------------------------------
\* C28: in list mode every entry displayed passes all active filters (text
\* query, selected category, selected tag, favorites-only); when no entry
\* passes them, nothing that fails a filter is shown.
C28_ListShowsOnlyPassing ==
  phase = "app" => \A i \in 1..Len(Displayed) : Passes(Displayed[i])

-----------------------------------------------------------------------------
\* The category and tag selects next to the import of a file.

InitSelect == InitView

NextSelect == SetCategory \/ SetTag \/ Reset \/ FileStart \/ FileFinish

SpecSelect == InitSelect /\ [][NextSelect]_vars

\* C29: in every reachable state the selected category is "all" or the
\* category of some entry of the current Collection, and the selected tag is
\* "all" or a tag of some entry of the current Collection, including after
\* the Collection is replaced by an import.
C29_SelectionIsOffered ==
  phase = "app" => /\ category \in allCategories(data)
                   /\ tag \in allTags(data)

-----------------------------------------------------------------------------
\* The sample button.

\* The two sample literals, a header line "H" and a row line "R": the catch
\* of the startup effect ends each line with a line feed ("\n" in a string of
\* the module), the button's handler with a backslash and the letter n
\* ("\\n" in a string of the JSX expression).
StartupSampleText == <<"H", "LF", "R", "LF">>
SampleButtonText == <<"H", "BACKSLASH", "n", "R", "BACKSLASH", "n">>

\* Papa.parse(text, {header: true, skipEmptyLines: true}) of a sample
\* literal: the lines end at line feeds, the first line is the header and
\* each further line is a row of the sample
SampleTable(text) == SubSeq(StartupSample, 1, Len(SplitNonEmpty(text, {"LF"})) - 1)

\* the sample button: parseCSVText(sample), setData(out), toast
SampleButton ==
  /\ Running
  /\ ImportTable(SampleTable(SampleButtonText), "sample-loaded")
  /\ UNCHANGED <<cursor, shuffles, loading, timers, pureVars, prefVars, adminVars, dataType,
                 crashed, query, category, tag, sortBy, favOnly, favs,
                 startPc, startRes, urlPc, urlRes, filePc>>

InitSample == InitLoading

NextSample ==
  \/ StartupSettle \/ StartupFinish \/ TimerFire
  \/ SampleButton \/ SetQuery \/ SetFavOnly

SpecSample == InitSample /\ [][NextSample]_vars

\* the Collection is the built-in sample: one entry, zhTitle "a" (for the
\* Chinese title of the literal) and enTitle "D" (for "Deduction")
IsTheSample(d) ==
  /\ Len(d) = 1
  /\ d[1].zhTitle = Some(<<"a">>) /\ d[1].enTitle = Some(<<"D">>)

\* C30: pressing the sample button replaces the Collection with the same
\* built-in sample that the startup fallback loads: afterwards the Collection
\* has exactly one entry with the sample's zhTitle and enTitle.
C30_SampleButtonLoadsTheSample ==
  (phase = "app" /\ notice = "sample-loaded") => IsTheSample(data)

====
